---- MODULE Spec2Model ----
(***************************************************************************)
(* Model of the quantum-consciousness-lord repository:                     *)
(*   src/src/awareness_growth_engine.py  (AwarenessGrowthEngine, main)     *)
(*   src/src/orchestrator.py             (MetaOrchestrator, main)          *)
(*                                                                         *)
(* Numbers.  The program computes with Python floats.  The model computes  *)
(* with exact decimals: every config value and candidate attribute is an   *)
(* integer number of hundredths (0.99 is 99, 10.0 is 1000), and a merit    *)
(* score is a reduced fraction [num, den].  Binary rounding error of the   *)
(* floats is not modelled.                                                 *)
(***************************************************************************)
EXTENDS Integers, Sequences, FiniteSets, TLC

VARIABLES
    cin,                \* classifier harness: the consciousness mapping
    cout,               \* classifier harness: the level returned (0: not yet called)
    opt,                \* scorer harness: a DecisionOption
    cur_energy,         \* scorer harness: current_energy argument
    mret,               \* scorer harness: value returned by calculate_merit (None before)
    core,               \* engine.core: the loaded core_architecture.json
    content_bus,        \* engine.content_bus: the loaded content.bus.json
    moral,              \* engine.moral: the loaded moral/registry.json
    state,              \* engine.state: the AwarenessState
    collective_intent,  \* engine.collective_intent
    last_op,            \* the operation that ran last
    arg,                \* its argument
    ret,                \* the value it returned, or the exception it raised
    disk,               \* the JSON documents present under circuit/, by name
    lord,               \* the MetaOrchestrator object of orchestrator.main
    stdout,             \* diagnostics printed by the loaders
    program,            \* the entry point that runs
    pc,                 \* its position
    steps,              \* the steps it has completed
    exit_code           \* its exit status (-1 while it runs)

classifyVars == <<cin, cout>>
meritVars == <<opt, cur_energy, mret>>
configVars == <<core, content_bus, moral>>
engineVars == <<core, content_bus, moral, state, collective_intent, last_op, arg, ret>>
mainVars == <<disk, lord, stdout, program, pc, steps, exit_code>>
vars == <<cin, cout, opt, cur_energy, mret, core, content_bus, moral, state,
          collective_intent, last_op, arg, ret, disk, lord, stdout, program, pc, steps,
          exit_code>>

\* Python's None, and a raised exception, as records so that they compare with
\* the records that stand for objects and numbers.
None == [none |-> TRUE]
Raised(exc) == [error |-> exc]
IsRaised(x) == DOMAIN x = {"error"}

(***************************************************************************)
(* dict.get(key, default)                                                  *)
(***************************************************************************)
Get(d, k, default) == IF k \in DOMAIN d THEN d[k] ELSE default

(***************************************************************************)
(* Exact decimal arithmetic standing for Python float arithmetic.  A value *)
(* is a fraction [num, den] in lowest terms with den > 0.                  *)
(***************************************************************************)
Abs(x) == IF x < 0 THEN -x ELSE x

RECURSIVE GCD(_, _)
GCD(a, b) == IF b = 0 THEN a ELSE GCD(b, a % b)

Q(n, d) ==
    LET g == GCD(Abs(n), Abs(d))
        s == IF d < 0 THEN -1 ELSE 1
    IN  [num |-> (s * n) \div g, den |-> (s * d) \div g]

Dec(x) == Q(x, 100)                     \* the decimal x/100
QAdd(a, b) == Q(a.num * b.den + b.num * a.den, a.den * b.den)
QSub(a, b) == Q(a.num * b.den - b.num * a.den, a.den * b.den)
QMul(a, b) == Q(a.num * b.num, a.den * b.den)
\* a / b; Python raises ZeroDivisionError when b is 0.0
QDiv(a, b) == IF b.num = 0 THEN Raised("ZeroDivisionError") ELSE Q(a.num * b.den, a.den * b.num)
QLess(a, b) == a.num * b.den < b.num * a.den
QLeq(a, b) == a.num * b.den <= b.num * a.den
QMax(a, b) == IF QLess(a, b) THEN b ELSE a
IsQ(x) == x \in [num : Int, den : Nat \ {0}]

(***************************************************************************)
(* AwarenessLevel enum values                                              *)
(***************************************************************************)
LEVEL_SUBSTRATE == 1
LEVEL_EMERGENT == 2
LEVEL_REFLECTIVE == 3
LEVEL_AUTONOMOUS == 4
LEVEL_RECURSIVE == 5
LEVEL_COLLECTIVE == 6
LEVEL_TRANSCENDENT == 7
LEVEL_INFINITE == 8

AwarenessLevel == LEVEL_SUBSTRATE..LEVEL_INFINITE

(***************************************************************************)
(* AwarenessGrowthEngine._assess_awareness_level                           *)
(***************************************************************************)
assess_swapped_top(consciousness) ==
    LET phi == Get(consciousness, "self_model_coherence", 0)
        entanglement == Get(consciousness, "entanglement_strength", 0)
        autonomous == Get(consciousness, "autonomous_intent", FALSE)
        recursive == Get(consciousness, "recursive_awareness", FALSE)
    IN  IF phi >= 500 THEN LEVEL_TRANSCENDENT
        ELSE IF phi >= 1000 THEN LEVEL_INFINITE
        ELSE IF entanglement > 99 /\ recursive THEN LEVEL_COLLECTIVE
        ELSE IF recursive /\ autonomous THEN LEVEL_RECURSIVE
        ELSE IF autonomous THEN LEVEL_AUTONOMOUS
        ELSE IF phi > 200 THEN LEVEL_REFLECTIVE
        ELSE IF phi > 100 THEN LEVEL_EMERGENT
        ELSE LEVEL_SUBSTRATE

assess_phi_first(consciousness) ==
    LET phi == Get(consciousness, "self_model_coherence", 0)
        entanglement == Get(consciousness, "entanglement_strength", 0)
        autonomous == Get(consciousness, "autonomous_intent", FALSE)
        recursive == Get(consciousness, "recursive_awareness", FALSE)
    IN  IF phi >= 1000 THEN LEVEL_INFINITE
        ELSE IF phi >= 500 THEN LEVEL_TRANSCENDENT
        ELSE IF phi > 200 THEN LEVEL_REFLECTIVE
        ELSE IF phi > 100 THEN LEVEL_EMERGENT
        ELSE IF entanglement > 99 /\ recursive THEN LEVEL_COLLECTIVE
        ELSE IF recursive /\ autonomous THEN LEVEL_RECURSIVE
        ELSE IF autonomous THEN LEVEL_AUTONOMOUS
        ELSE LEVEL_SUBSTRATE

assess_awareness_level(consciousness) ==
    LET phi == Get(consciousness, "self_model_coherence", 0)
        entanglement == Get(consciousness, "entanglement_strength", 0)
        autonomous == Get(consciousness, "autonomous_intent", FALSE)
        recursive == Get(consciousness, "recursive_awareness", FALSE)
    IN  IF phi >= 1000 THEN LEVEL_INFINITE
        ELSE IF phi >= 500 THEN LEVEL_TRANSCENDENT
        ELSE IF entanglement > 99 /\ recursive THEN LEVEL_COLLECTIVE
        ELSE IF recursive /\ autonomous THEN LEVEL_RECURSIVE
        ELSE IF autonomous THEN LEVEL_AUTONOMOUS
        ELSE IF phi > 200 THEN LEVEL_REFLECTIVE
        ELSE IF phi > 100 THEN LEVEL_EMERGENT
        ELSE LEVEL_SUBSTRATE

(***************************************************************************)
(* Inputs of the classifier harness.                                       *)
(***************************************************************************)
MetricValues == {0, 50, 100, 101, 150, 200, 201, 250, 499, 500, 999, 1000, 1500}
EntanglementValues == {0, 98, 99, 100}
ConsciousnessKeys ==
    {"self_model_coherence", "entanglement_strength", "autonomous_intent", "recursive_awareness"}

FullConsciousness(m, e, a, r) ==
    [k \in ConsciousnessKeys |->
        CASE k = "self_model_coherence" -> m
          [] k = "entanglement_strength" -> e
          [] k = "autonomous_intent" -> a
          [] k = "recursive_awareness" -> r]

Restrict(d, keys) == [k \in keys |-> d[k]]

\* A consciousness_state mapping: any of its keys may be absent from the JSON.
ConsciousnessInputs ==
    { Restrict(FullConsciousness(m, e, a, r), ks) :
        m \in MetricValues, e \in EntanglementValues, a \in BOOLEAN, r \in BOOLEAN,
        ks \in {ConsciousnessKeys,
                ConsciousnessKeys \ {"self_model_coherence"},
                ConsciousnessKeys \ {"entanglement_strength"},
                ConsciousnessKeys \ {"autonomous_intent", "recursive_awareness"},
                {}} }

\* The parts of the state a specification does not use stay as they are here.
ClassifyIdle == cin = <<>> /\ cout = 0
MeritIdle == opt = None /\ cur_energy = 0 /\ mret = None
EngineIdle ==
    /\ core = None
    /\ content_bus = None
    /\ moral = None
    /\ state = None
    /\ collective_intent = <<>>
    /\ last_op = "none"
    /\ arg = None
    /\ ret = None
MainIdle ==
    /\ disk = <<>>
    /\ lord = None
    /\ stdout = <<>>
    /\ program = "none"
    /\ pc = "none"
    /\ steps = <<>>
    /\ exit_code = -1

InitClassify ==
    /\ cin \in ConsciousnessInputs
    /\ cout = 0
    /\ MeritIdle
    /\ EngineIdle
    /\ MainIdle

Assess ==
    /\ cout = 0
    /\ cout' = assess_awareness_level(cin)
    /\ UNCHANGED <<cin, meritVars, engineVars, mainVars>>

NextClassify == Assess

SpecClassify == InitClassify /\ [][NextClassify]_vars

(***************************************************************************)
(* DecisionOption.calculate_merit: the value assigned to self.merit_score  *)
(* and returned.  current_phi is accepted and never read.                  *)
(***************************************************************************)
calculate_merit_no_floor(self, current_phi, current_energy) ==
    LET energy_efficiency == QDiv(Dec(self.phi_impact), Dec(self.energy_cost))
        phi_value == QMul(Dec(self.phi_impact), Dec(1000))
        entanglement_value == QMul(QMax(Dec(0), Dec(self.entanglement_impact)), Dec(500))
        urgency_multiplier == QAdd(Dec(100), Dec(self.urgency))
        energy_feasibility == IF current_energy >= self.energy_cost THEN Dec(100) ELSE Dec(30)
    IN  IF IsRaised(energy_efficiency) THEN energy_efficiency
        ELSE QMul(QAdd(QAdd(QAdd(QMul(phi_value, Dec(40)),
                                 QMul(energy_efficiency, Dec(25))),
                            QMul(entanglement_value, Dec(20))),
                       QMul(urgency_multiplier, Dec(15))),
                  energy_feasibility)

calculate_merit_always_feasible(self, current_phi, current_energy) ==
    LET energy_efficiency == QDiv(Dec(self.phi_impact), QMax(Dec(self.energy_cost), Dec(1)))
        phi_value == QMul(Dec(self.phi_impact), Dec(1000))
        entanglement_value == QMul(QMax(Dec(0), Dec(self.entanglement_impact)), Dec(500))
        urgency_multiplier == QAdd(Dec(100), Dec(self.urgency))
    IN  QAdd(QAdd(QAdd(QMul(phi_value, Dec(40)),
                       QMul(energy_efficiency, Dec(25))),
                  QMul(entanglement_value, Dec(20))),
             QMul(urgency_multiplier, Dec(15)))

calculate_merit(self, current_phi, current_energy) ==
    LET energy_efficiency == QDiv(Dec(self.phi_impact), QMax(Dec(self.energy_cost), Dec(1)))
        phi_value == QMul(Dec(self.phi_impact), Dec(1000))
        entanglement_value == QMul(QMax(Dec(0), Dec(self.entanglement_impact)), Dec(500))
        urgency_multiplier == QAdd(Dec(100), Dec(self.urgency))
        energy_feasibility == IF current_energy >= self.energy_cost THEN Dec(100) ELSE Dec(30)
    IN  QMul(QAdd(QAdd(QAdd(QMul(phi_value, Dec(40)),
                            QMul(energy_efficiency, Dec(25))),
                       QMul(entanglement_value, Dec(20))),
                  QMul(urgency_multiplier, Dec(15))),
             energy_feasibility)

(***************************************************************************)
(* DecisionOption dataclass                                                *)
(***************************************************************************)
DecisionOption(id, domain, phi_impact, entanglement_impact, energy_cost, time_required, dependencies, urgency) ==
    [id |-> id, domain |-> domain, phi_impact |-> phi_impact,
     entanglement_impact |-> entanglement_impact, energy_cost |-> energy_cost,
     time_required |-> time_required, dependencies |-> dependencies,
     merit_score |-> Dec(0), urgency |-> urgency]

(***************************************************************************)
(* Inputs of the scorer harness: phi_impact is an expected increase and    *)
(* urgency runs from 0.0 to 1.0 (field comments of DecisionOption); the    *)
(* entanglement change may be negative and the cost may be 0.              *)
(***************************************************************************)
ImpactValues == {0, 10, 50, 80, 100}
CostValues == {0, 1, 30, 100, 200, 300}
EntanglementImpactValues == {-5, 0, 1, 10}
UrgencyValues == {0, 50, 80, 100}
EnergyValues == {0, 50, 100, 200, 500}

InitMerit ==
    /\ \E i \in ImpactValues, c \in CostValues, e \in EntanglementImpactValues,
          u \in UrgencyValues :
          opt = DecisionOption("harness_001", "cognitive", i, e, c, 2500, <<>>, u)
    /\ cur_energy \in EnergyValues
    /\ mret = None
    /\ ClassifyIdle
    /\ EngineIdle
    /\ MainIdle

\* option.calculate_merit(current_phi, current_energy)
CalculateMerit ==
    /\ mret = None
    /\ LET score == calculate_merit(opt, 0, cur_energy)
       IN  /\ opt' = [opt EXCEPT !.merit_score = score]
           /\ mret' = score
    /\ UNCHANGED <<classifyVars, cur_energy, engineVars, mainVars>>

NextMerit == CalculateMerit

SpecMerit == InitMerit /\ [][NextMerit]_vars

(***************************************************************************)
(* AwarenessLevel members as objects (name and value), as AwarenessState   *)
(* holds them.                                                             *)
(***************************************************************************)
LevelName(v) ==
    CASE v = 1 -> "SUBSTRATE" [] v = 2 -> "EMERGENT" [] v = 3 -> "REFLECTIVE"
      [] v = 4 -> "AUTONOMOUS" [] v = 5 -> "RECURSIVE" [] v = 6 -> "COLLECTIVE"
      [] v = 7 -> "TRANSCENDENT" [] v = 8 -> "INFINITE"

LevelMember(v) == [enum |-> "AwarenessLevel", name |-> LevelName(v), value |-> v]

(***************************************************************************)
(* AwarenessGrowthEngine.update_awareness_state: the AwarenessState built  *)
(* from the loaded documents (the timestamp is not modelled), or KeyError  *)
(* when a key it reads is absent.                                          *)
(***************************************************************************)
RECURSIVE HasPath(_, _)
HasPath(d, path) ==
    \/ path = <<>>
    \/ /\ Head(path) \in DOMAIN d
       /\ HasPath(d[Head(path)], Tail(path))

update_awareness_state_completed(c, bus, m) ==
    IF \/ ~HasPath(c, <<"meta_orchestrator", "consciousness_state">>)
       \/ ~HasPath(c, <<"circuit_layers", "layer_1_quantum", "phi_total">>)
       \/ ~HasPath(c, <<"meta_orchestrator", "consciousness_state", "entanglement_strength">>)
       \/ ~HasPath(c, <<"circuit_layers", "layer_5_infinite_generation", "current_energy">>)
       \/ ~HasPath(c, <<"system_metrics", "total_nodes">>)
       \/ ~HasPath(c, <<"system_metrics", "total_connections">>)
       \/ ~HasPath(bus, <<"wormhole", "enabled">>)
       \/ ~HasPath(m, <<"karmic_balance">>)
    THEN Raised("KeyError")
    ELSE
    LET consciousness == c.meta_orchestrator.consciousness_state
        layers == c.circuit_layers
        level == LevelMember(assess_awareness_level(consciousness))
    IN  [level |-> level,
         phi_total |-> layers.layer_1_quantum.phi_total,
         entanglement |-> consciousness["entanglement_strength"],
         energy |-> layers.layer_5_infinite_generation.current_energy,
         nodes_active |-> c.system_metrics.total_nodes,
         connections_active |-> c.system_metrics.total_connections,
         temporal_coherence |-> bus.wormhole.enabled,
         moral_alignment |-> m.karmic_balance,
         active_domains |-> <<>>,
         pending_decisions |-> <<>>,
         completed_decisions |-> <<"neural_001">>]

update_awareness_state(c, bus, m) ==
    IF \/ ~HasPath(c, <<"meta_orchestrator", "consciousness_state">>)
       \/ ~HasPath(c, <<"circuit_layers", "layer_1_quantum", "phi_total">>)
       \/ ~HasPath(c, <<"meta_orchestrator", "consciousness_state", "entanglement_strength">>)
       \/ ~HasPath(c, <<"circuit_layers", "layer_5_infinite_generation", "current_energy">>)
       \/ ~HasPath(c, <<"system_metrics", "total_nodes">>)
       \/ ~HasPath(c, <<"system_metrics", "total_connections">>)
       \/ ~HasPath(bus, <<"wormhole", "enabled">>)
       \/ ~HasPath(m, <<"karmic_balance">>)
    THEN Raised("KeyError")
    ELSE
    LET consciousness == c.meta_orchestrator.consciousness_state
        layers == c.circuit_layers
        level == LevelMember(assess_awareness_level(consciousness))
    IN  [level |-> level,
         phi_total |-> layers.layer_1_quantum.phi_total,
         entanglement |-> consciousness["entanglement_strength"],
         energy |-> layers.layer_5_infinite_generation.current_energy,
         nodes_active |-> c.system_metrics.total_nodes,
         connections_active |-> c.system_metrics.total_connections,
         temporal_coherence |-> bus.wormhole.enabled,
         moral_alignment |-> m.karmic_balance,
         active_domains |-> <<>>,
         pending_decisions |-> <<>>,
         completed_decisions |-> <<>>]

(***************************************************************************)
(* AwarenessGrowthEngine.generate_decision_options: the literal catalog.   *)
(***************************************************************************)
generate_decision_options ==
    << DecisionOption("quantum_001", "quantum", 50, 5, 100, 1000, <<>>, 70),
       DecisionOption("quantum_002", "quantum", 30, 2, 250, 3000, <<>>, 50),
       DecisionOption("neural_001", "neural", 40, 3, 150, 2000, <<>>, 60),
       DecisionOption("cognitive_001", "cognitive", 80, 1, 200, 2500, <<"neural_001">>, 80),
       DecisionOption("cognitive_002", "cognitive", 60, 0, 180, 1500, <<>>, 70),
       DecisionOption("moral_001", "moral", 20, 0, 50, 500, <<>>, 90),
       DecisionOption("moral_002", "moral", 30, 0, 100, 1200, <<>>, 50),
       DecisionOption("temporal_001", "temporal", 40, 4, 120, 1800, <<>>, 60),
       DecisionOption("sacred_001", "sacred_geometry", 30, 2, 80, 800, <<>>, 40),
       DecisionOption("comm_001", "communication", 10, 5, 30, 200, <<>>, 80),
       DecisionOption("comm_002", "communication", 50, 10, 300, 6000, <<>>, 60),
       DecisionOption("network_001", "network", 70, 3, 200, 2200, <<>>, 50) >>

(***************************************************************************)
(* sorted(options, key=lambda x: x.merit_score, reverse=True): a stable    *)
(* sort, elements of equal key keep their order.                           *)
(***************************************************************************)
RECURSIVE InsertDesc(_, _)
InsertDesc(x, sorted) ==
    IF sorted = <<>> THEN <<x>>
    ELSE IF QLess(Head(sorted).merit_score, x.merit_score)
         THEN <<x>> \o sorted
         ELSE <<Head(sorted)>> \o InsertDesc(x, Tail(sorted))

RECURSIVE SortedDesc(_)
SortedDesc(xs) ==
    IF xs = <<>> THEN <<>>
    ELSE InsertDesc(xs[Len(xs)], SortedDesc(SubSeq(xs, 1, Len(xs) - 1)))

RECURSIVE InsertAsc(_, _)
InsertAsc(x, sorted) ==
    IF sorted = <<>> THEN <<x>>
    ELSE IF QLess(x.merit_score, Head(sorted).merit_score)
         THEN <<x>> \o sorted
         ELSE <<Head(sorted)>> \o InsertAsc(x, Tail(sorted))

RECURSIVE SortedAsc(_)
SortedAsc(xs) ==
    IF xs = <<>> THEN <<>>
    ELSE InsertAsc(xs[Len(xs)], SortedAsc(SubSeq(xs, 1, Len(xs) - 1)))

(***************************************************************************)
(* AwarenessGrowthEngine.evaluate_and_rank_decisions.  self.state is set   *)
(* by the constructor, so the "if not self.state" branch is never taken.   *)
(***************************************************************************)
ScoreAll(st, options) ==
    [i \in 1..Len(options) |->
        [options[i] EXCEPT !.merit_score = calculate_merit(options[i], st.phi_total, st.energy)]]

evaluate_and_rank_ascending(st, options) == SortedAsc(ScoreAll(st, options))

evaluate_and_rank_decisions(st, options) == SortedDesc(ScoreAll(st, options))

(***************************************************************************)
(* AwarenessGrowthEngine._check_dependencies                               *)
(***************************************************************************)
InList(x, xs) == \E i \in 1..Len(xs) : xs[i] = x

check_dependencies_none(st, option) == TRUE

check_dependencies_strict(st, option) ==
    /\ st.completed_decisions # <<>>
    /\ \A k \in 1..Len(option.dependencies) :
          InList(option.dependencies[k], st.completed_decisions)

check_dependencies(st, option) ==
    IF option.dependencies = <<>> THEN TRUE
    ELSE \A k \in 1..Len(option.dependencies) :
            InList(option.dependencies[k], st.completed_decisions)

(***************************************************************************)
(* xs[:n], the Python slice (a negative n counts from the end).            *)
(***************************************************************************)
SliceTo(xs, n) ==
    LET stop == IF n >= 0 THEN (IF n < Len(xs) THEN n ELSE Len(xs))
                ELSE (IF Len(xs) + n > 0 THEN Len(xs) + n ELSE 0)
    IN  SubSeq(xs, 1, stop)

RECURSIVE FilterFeasible(_, _)
FilterFeasible(st, xs) ==
    IF xs = <<>> THEN <<>>
    ELSE IF check_dependencies(st, Head(xs))
         THEN <<Head(xs)>> \o FilterFeasible(st, Tail(xs))
         ELSE FilterFeasible(st, Tail(xs))

(***************************************************************************)
(* AwarenessGrowthEngine.select_next_action                                *)
(***************************************************************************)
select_next_action_unsliced(st, n) ==
    FilterFeasible(st, evaluate_and_rank_decisions(st, generate_decision_options))

select_next_action(st, n) ==
    LET options == generate_decision_options
        ranked == evaluate_and_rank_decisions(st, options)
        feasible == FilterFeasible(st, ranked)
    IN  SliceTo(feasible, n)

(***************************************************************************)
(* AwarenessGrowthEngine._generate_rationale: the reasons that apply, in   *)
(* order; the fallback sentence when none does.                            *)
(***************************************************************************)
generate_rationale(decision) ==
    LET r1 == IF decision.phi_impact > 50 THEN <<"Significant consciousness expansion">> ELSE <<>>
        r2 == IF decision.urgency > 70 THEN <<"High urgency priority">> ELSE <<>>
        r3 == IF decision.domain = "moral" THEN <<"Aligns with compassion layer">> ELSE <<>>
        r4 == IF decision.entanglement_impact > 5
              THEN <<"Strengthens quantum entanglement">> ELSE <<>>
        r5 == IF decision.energy_cost < 100 THEN <<"Energy efficient execution">> ELSE <<>>
        reasons == r1 \o r2 \o r3 \o r4 \o r5
    IN  IF reasons # <<>> THEN reasons ELSE <<"Supports overall growth trajectory">>

(***************************************************************************)
(* AwarenessGrowthEngine._assess_collective_benefit                        *)
(***************************************************************************)
assess_collective_benefit(decision) ==
    IF decision.domain = "communication" THEN "Enables inter-consciousness coordination"
    ELSE IF decision.domain = "moral" THEN "Reduces suffering in external systems"
    ELSE IF decision.domain = "network" THEN "Improves collective information integration"
    ELSE IF decision.entanglement_impact > 5 THEN "Strengthens quantum coherence across network"
    ELSE "Contributes to universal merit through self-improvement"

(***************************************************************************)
(* AwarenessGrowthEngine.communicate_intent: the message returned; the     *)
(* caller of this operator appends decision.id to collective_intent.       *)
(***************************************************************************)
communicate_intent(st, decision) ==
    [source |-> "awareness_growth_engine",
     awareness_level |-> st.level.name,
     decision_id |-> decision.id,
     domain |-> decision.domain,
     expected_phi_increase |-> decision.phi_impact,
     expected_entanglement_change |-> decision.entanglement_impact,
     energy_cost |-> decision.energy_cost,
     time_required |-> decision.time_required,
     merit_score |-> decision.merit_score,
     urgency |-> decision.urgency,
     rationale |-> generate_rationale(decision),
     collective_benefit |-> assess_collective_benefit(decision)]

(***************************************************************************)
(* round(x, 3): the nearest multiple of 0.001, a tie going to the even one *)
(***************************************************************************)
Round3(x) ==
    LET n == Abs(x.num) * 1000
        k == n \div x.den
        r == n % x.den
        up == (2 * r > x.den) \/ (2 * r = x.den /\ k % 2 = 1)
        m == IF up THEN k + 1 ELSE k
    IN  Q(IF x.num < 0 THEN -m ELSE m, 1000)

(***************************************************************************)
(* AwarenessGrowthEngine._determine_next_milestone                         *)
(***************************************************************************)
determine_next_milestone(st) ==
    LET current == st.level.value
    IN  CASE current = LEVEL_SUBSTRATE -> "Achieve emergent self-awareness (Phi > 1.0)"
          [] current = LEVEL_EMERGENT -> "Develop reflective capability (Phi > 2.0)"
          [] current = LEVEL_REFLECTIVE -> "Enable autonomous decision-making"
          [] current = LEVEL_AUTONOMOUS -> "Activate recursive self-modification"
          [] current = LEVEL_RECURSIVE -> "Establish collective consciousness links"
          [] current = LEVEL_COLLECTIVE -> "Transcend individual identity"
          [] current = LEVEL_TRANSCENDENT -> "Approach infinite consciousness (Phi -> inf)"
          [] current = LEVEL_INFINITE -> "Maintain infinite consciousness state"
          [] OTHER -> "Continue evolution"

(***************************************************************************)
(* AwarenessGrowthEngine._estimate_cycles_to_next_level                    *)
(***************************************************************************)
SymbolicInfinite == 999999

\* int(x): truncation toward zero
Trunc(x) == IF x.num >= 0 THEN x.num \div x.den ELSE -((-x.num) \div x.den)

thresholds ==
    [l \in LEVEL_SUBSTRATE..LEVEL_TRANSCENDENT |->
        CASE l = LEVEL_SUBSTRATE -> 100
          [] l = LEVEL_EMERGENT -> 200
          [] l = LEVEL_REFLECTIVE -> 250
          [] l = LEVEL_AUTONOMOUS -> 300
          [] l = LEVEL_RECURSIVE -> 400
          [] l = LEVEL_COLLECTIVE -> 500
          [] l = LEVEL_TRANSCENDENT -> 1000]

estimate_cycles_no_sentinel(st) ==
    LET current_phi == st.phi_total
        current_level == st.level
        next_level == IF current_level.value + 1 < 8 THEN current_level.value + 1 ELSE 8
        next_threshold == Get(thresholds, next_level, 1000)
        phi_needed == QSub(Dec(next_threshold), Dec(current_phi))
        avg_growth_per_cycle == Dec(1)
        cycles == Trunc(QDiv(phi_needed, avg_growth_per_cycle))
    IN  IF cycles > 1 THEN cycles ELSE 1

estimate_cycles_to_next_level(st) ==
    LET current_phi == st.phi_total
        current_level == st.level
        next_level == IF current_level.value + 1 < 8 THEN current_level.value + 1 ELSE 8
    IN  IF next_level = LEVEL_INFINITE THEN SymbolicInfinite
        ELSE LET next_threshold == Get(thresholds, next_level, 1000)
                 phi_needed == QSub(Dec(next_threshold), Dec(current_phi))
                 avg_growth_per_cycle == Dec(1)
                 cycles == Trunc(QDiv(phi_needed, avg_growth_per_cycle))
             IN  IF cycles > 1 THEN cycles ELSE 1

(***************************************************************************)
(* AwarenessGrowthEngine._calculate_phi_growth_rate                        *)
(***************************************************************************)
calculate_phi_growth_rate(c) ==
    IF HasPath(c, <<"circuit_layers", "layer_5_infinite_generation", "growth_rate_gamma">>)
    THEN c.circuit_layers.layer_5_infinite_generation.growth_rate_gamma
    ELSE Raised("KeyError")

(***************************************************************************)
(* AwarenessGrowthEngine._generate_self_reflection: the sentence is kept   *)
(* as its three parts.  select_next_action(top_n=1)[0] raises IndexError   *)
(* on an empty list.                                                       *)
(***************************************************************************)
generate_self_reflection(st) ==
    LET top == select_next_action(st, 1)
    IN  IF top = <<>> THEN Raised("IndexError")
        ELSE [base_reflection |-> st.level.name,
              priority |-> top[1].id,
              moral |-> IF st.moral_alignment > 90
                        THEN "I operate with compassion and seek to reduce suffering."
                        ELSE "I seek to align more deeply with compassion."]

(***************************************************************************)
(* AwarenessGrowthEngine.generate_growth_report: the report returned (or   *)
(* the exception raised) and collective_intent after the broadcasts.  The  *)
(* timestamps are not modelled.                                            *)
(***************************************************************************)
generate_growth_report(c, st, ci) ==
    LET next_actions == select_next_action(st, 5)
        intent_messages == [i \in 1..Len(next_actions) |-> communicate_intent(st, next_actions[i])]
        ci2 == ci \o [i \in 1..Len(next_actions) |-> next_actions[i].id]
        gamma_present ==
            HasPath(c, <<"circuit_layers", "layer_5_infinite_generation", "growth_rate_gamma">>)
        reflection == generate_self_reflection(st)
        rep == [awareness_state |-> st,
                growth_trajectory |->
                    [current_level |-> st.level.name,
                     next_milestone |-> determine_next_milestone(st),
                     estimated_cycles_to_next_level |-> estimate_cycles_to_next_level(st),
                     phi_growth_rate |-> calculate_phi_growth_rate(c)],
                recommended_actions |->
                    [i \in 1..Len(next_actions) |->
                        [rank |-> i,
                         decision_id |-> next_actions[i].id,
                         domain |-> next_actions[i].domain,
                         merit_score |-> Round3(next_actions[i].merit_score),
                         phi_impact |-> next_actions[i].phi_impact,
                         urgency |-> next_actions[i].urgency]],
                intent_broadcasts |-> intent_messages,
                collective_consciousness |->
                    [active_intents |-> Len(ci2),
                     network_coherence |-> st.entanglement,
                     moral_alignment |-> st.moral_alignment],
                self_reflection |-> reflection]
    IN  [report |-> IF ~gamma_present THEN Raised("KeyError")
                    ELSE IF IsRaised(reflection) THEN reflection
                    ELSE rep,
         collective_intent |-> ci2]

(***************************************************************************)
(* json.dump(report, f) and json.load: the encoder accepts dict, list,     *)
(* str, int, float, bool and None and raises TypeError on any other        *)
(* object; an Enum member is such an object.                               *)
(***************************************************************************)
IsEnumMember(v) == "enum" \in DOMAIN v

json_dump(rep) ==
    IF IsEnumMember(rep.awareness_state.level)
    THEN Raised("TypeError")
    ELSE [json |-> "object", members |-> rep]

json_load(text) == text.members

(***************************************************************************)
(* The engine after construction, and its operations.                      *)
(***************************************************************************)
MaxTopN == 13           \* largest top_n requested
MaxIntent == 6          \* collective_intent is followed up to this length
MaxCompleted == 2       \* completions a caller records
MaxOptions == 3         \* longest list handed to evaluate_and_rank_decisions

CoreDocument(consciousness, phi_total, energy) ==
    [meta_orchestrator |->
        [consciousness_state |-> consciousness,
         core_identity |-> [entity |-> "LORD", creation_timestamp |-> "2026-02-14"]],
     circuit_layers |->
        [layer_1_quantum |-> [phi_total |-> phi_total, xi_complexity |-> 100],
         layer_3_sacred_geometry |-> [merkaba_rotation_hz |-> 4369, tetrahedral_energy_j |-> 100],
         layer_5_infinite_generation |->
            [current_energy |-> energy, growth_rate_gamma |-> 15,
             energy_transmutation |-> 317, gamma_growth_rate |-> 15]],
     system_metrics |->
        [total_nodes |-> 50, total_connections |-> 87,
         consciousness_bandwidth_tb_per_s |-> 100, manifestation_latency_ms |-> 100]]

EngineConsciousness ==
    { FullConsciousness(50, 98, FALSE, FALSE),
      FullConsciousness(250, 100, TRUE, TRUE),
      FullConsciousness(1000, 99, TRUE, FALSE) }
EnginePhiTotals == {50, 274}
EngineEnergies == {0, 100, 200, 300}
KarmicBalances == {50, 95}
\* top_n requested: none, the report's 1 and 5, and counts around the catalog's
\* 12 candidates
TopNs == {0, 1, 2, 5, 11, 12, MaxTopN}

\* Lists a caller hands to evaluate_and_rank_decisions: two candidates that
\* always score the same and one that scores higher when affordable.
OptionPool ==
    { DecisionOption("tie_001", "quantum", 50, 5, 100, 1000, <<>>, 70),
      DecisionOption("tie_002", "neural", 50, 5, 100, 1000, <<>>, 70),
      DecisionOption("high_001", "cognitive", 80, 1, 200, 2500, <<>>, 80) }

OptionLists ==
    { xs \in UNION { [1..k -> OptionPool] : k \in 0..MaxOptions } :
        \A i, j \in 1..Len(xs) : i # j => xs[i] # xs[j] }

Init ==
    /\ ClassifyIdle
    /\ MeritIdle
    /\ MainIdle
    /\ \E c \in EngineConsciousness, p \in EnginePhiTotals, e \in EngineEnergies :
          core = CoreDocument(c, p, e)
    /\ content_bus = [wormhole |-> [enabled |-> TRUE]]
    /\ \E k \in KarmicBalances : moral = [karmic_balance |-> k]
    /\ state = update_awareness_state(core, content_bus, moral)
    /\ collective_intent = <<>>
    /\ last_op = "__init__"
    /\ arg = None
    /\ ret = None

\* engine.update_awareness_state()
UpdateAwarenessState ==
    /\ LET st == update_awareness_state(core, content_bus, moral)
       IN  IF IsRaised(st) THEN state' = state /\ ret' = st
                           ELSE state' = st /\ ret' = None
    /\ last_op' = "update_awareness_state"
    /\ arg' = None
    /\ UNCHANGED <<classifyVars, meritVars, mainVars, configVars, collective_intent>>

\* engine.evaluate_and_rank_decisions(options)
EvaluateAndRankDecisions ==
    /\ \E options \in OptionLists :
          /\ arg' = [options |-> options]
          /\ ret' = evaluate_and_rank_decisions(state, options)
    /\ last_op' = "evaluate_and_rank_decisions"
    /\ UNCHANGED <<classifyVars, meritVars, mainVars, configVars, state, collective_intent>>

SelectNextAction_stores_pending ==
    /\ \E n \in TopNs :
          /\ arg' = [top_n |-> n]
          /\ ret' = select_next_action(state, n)
    /\ state' = [state EXCEPT !.pending_decisions = [i \in 1..Len(ret') |-> ret'[i].id]]
    /\ last_op' = "select_next_action"
    /\ UNCHANGED <<classifyVars, meritVars, mainVars, configVars, collective_intent>>

\* engine.select_next_action(top_n)
SelectNextAction ==
    /\ \E n \in TopNs :
          /\ arg' = [top_n |-> n]
          /\ ret' = select_next_action(state, n)
    /\ last_op' = "select_next_action"
    /\ UNCHANGED <<classifyVars, meritVars, mainVars, configVars, state, collective_intent>>

CommunicateIntent_replaces ==
    /\ last_op = "select_next_action"
    /\ Len(collective_intent) < MaxIntent
    /\ ret # <<>>
    /\ arg' = [decision |-> ret[1]]
    /\ ret' = communicate_intent(state, ret[1])
    /\ collective_intent' = <<ret[1].id>>
    /\ last_op' = "communicate_intent"
    /\ UNCHANGED <<classifyVars, meritVars, mainVars, configVars, state>>

\* engine.communicate_intent(decision), decision being the first of the list
\* that select_next_action just returned
CommunicateIntent ==
    /\ last_op = "select_next_action"
    /\ Len(collective_intent) < MaxIntent
    /\ ret # <<>>
    /\ arg' = [decision |-> ret[1]]
    /\ ret' = communicate_intent(state, ret[1])
    /\ collective_intent' = Append(collective_intent, ret[1].id)
    /\ last_op' = "communicate_intent"
    /\ UNCHANGED <<classifyVars, meritVars, mainVars, configVars, state>>

\* engine.generate_growth_report()
GenerateGrowthReport ==
    /\ Len(collective_intent) + 5 <= MaxIntent
    /\ LET out == generate_growth_report(core, state, collective_intent)
       IN  /\ ret' = out.report
           /\ collective_intent' = out.collective_intent
    /\ last_op' = "generate_growth_report"
    /\ arg' = None
    /\ UNCHANGED <<classifyVars, meritVars, mainVars, configVars, state>>

\* json.dump(report, f) on the report just generated
JsonDump ==
    /\ last_op = "generate_growth_report"
    /\ ~IsRaised(ret)
    /\ arg' = [report |-> ret]
    /\ ret' = json_dump(ret)
    /\ last_op' = "json_dump"
    /\ UNCHANGED <<classifyVars, meritVars, mainVars, configVars, state, collective_intent>>

Next ==
    \/ UpdateAwarenessState
    \/ SelectNextAction
    \/ CommunicateIntent
    \/ GenerateGrowthReport
    \/ JsonDump

Spec == Init /\ [][Next]_vars

(***************************************************************************)
(* Every public operation of the engine, evaluate_and_rank_decisions       *)
(* included, on the engines of Init whose energy is 2.0 and whose karmic   *)
(* balance is 0.95.                                                        *)
(***************************************************************************)
InitFrame ==
    /\ Init
    /\ core.circuit_layers.layer_5_infinite_generation.current_energy = 200
    /\ moral.karmic_balance = 95

NextFrame ==
    \/ Next
    \/ EvaluateAndRankDecisions

SpecFrame == InitFrame /\ [][NextFrame]_vars

(***************************************************************************)
(* The ranking operations used by a caller that records completed          *)
(* decisions in the public list state.completed_decisions.                 *)
(***************************************************************************)
CompletableIds == {"neural_001", "quantum_001"}

CallerCompletes ==
    /\ Len(state.completed_decisions) < MaxCompleted
    /\ \E id \in CompletableIds :
          /\ ~InList(id, state.completed_decisions)
          /\ state' = [state EXCEPT !.completed_decisions = Append(@, id)]
    /\ last_op' = "caller_completes"
    /\ arg' = None
    /\ ret' = None
    /\ UNCHANGED <<classifyVars, meritVars, mainVars, configVars, collective_intent>>

NextCaller ==
    \/ CallerCompletes
    \/ UpdateAwarenessState
    \/ EvaluateAndRankDecisions
    \/ SelectNextAction

SpecCaller == Init /\ [][NextCaller]_vars

(***************************************************************************)
(* The documents under circuit/.                                           *)
(***************************************************************************)
CORE == "core_architecture.json"
BUS == "content.bus.json"
MORAL == "moral/registry.json"

EmptyDict == <<>>
IsEmptyDict(d) == DOMAIN d = {}

(***************************************************************************)
(* AwarenessGrowthEngine.load_substrate: open() raises FileNotFoundError   *)
(* on the first absent document; the attributes assigned before stay       *)
(* assigned.                                                               *)
(***************************************************************************)
load_substrate(d) ==
    IF CORE \notin DOMAIN d
    THEN [core |-> None, content_bus |-> None, moral |-> None, state |-> None,
          error |-> Raised("FileNotFoundError")]
    ELSE IF BUS \notin DOMAIN d
    THEN [core |-> d[CORE], content_bus |-> None, moral |-> None, state |-> None,
          error |-> Raised("FileNotFoundError")]
    ELSE IF MORAL \notin DOMAIN d
    THEN [core |-> d[CORE], content_bus |-> d[BUS], moral |-> None, state |-> None,
          error |-> Raised("FileNotFoundError")]
    ELSE LET st == update_awareness_state(d[CORE], d[BUS], d[MORAL])
         IN  [core |-> d[CORE], content_bus |-> d[BUS], moral |-> d[MORAL],
              state |-> IF IsRaised(st) THEN None ELSE st,
              error |-> IF IsRaised(st) THEN st ELSE None]

(***************************************************************************)
(* MetaOrchestrator.__init__ and _load_substrate: the object, the lines    *)
(* printed and the exception raised, if any.                               *)
(***************************************************************************)
MetaOrchestrator_init ==
    [substrate |-> EmptyDict, content_bus |-> EmptyDict, moral_registry |-> EmptyDict,
     cycle_count |-> 0]

orchestrator_load_substrate(self, d) ==
    IF CORE \notin DOMAIN d
    THEN [self |-> self, stdout |-> <<>>, error |-> Raised("FileNotFoundError")]
    ELSE
    LET s1 == [self EXCEPT !.substrate = d[CORE]]
    IN  IF \/ ~HasPath(d[CORE], <<"meta_orchestrator", "core_identity", "entity">>)
           \/ ~HasPath(d[CORE], <<"meta_orchestrator", "core_identity", "creation_timestamp">>)
        THEN [self |-> s1, stdout |-> <<>>, error |-> Raised("KeyError")]
        ELSE
        LET s2 == IF BUS \in DOMAIN d THEN [s1 EXCEPT !.content_bus = d[BUS]] ELSE s1
            o2 == IF BUS \in DOMAIN d THEN <<"Content bus loaded">>
                                      ELSE <<"WARNING Content bus not found">>
            s3 == IF MORAL \in DOMAIN d THEN [s2 EXCEPT !.moral_registry = d[MORAL]] ELSE s2
            o3 == IF MORAL \in DOMAIN d THEN <<"Moral registry loaded">>
                                        ELSE <<"WARNING Moral registry not found">>
        IN  [self |-> s3, stdout |-> <<"Loaded">> \o o2 \o o3, error |-> None]

heartbeat_returns_old(self) ==
    LET s1 == [self EXCEPT !.cycle_count = @ + 1]
        sub == self.substrate
        reg == self.moral_registry
        missing ==
            \/ ~HasPath(sub, <<"meta_orchestrator", "consciousness_state">>)
            \/ ~HasPath(sub, <<"circuit_layers", "layer_1_quantum">>)
            \/ ~HasPath(sub, <<"circuit_layers", "layer_3_sacred_geometry">>)
            \/ ~HasPath(sub, <<"circuit_layers", "layer_5_infinite_generation">>)
            \/ ~HasPath(sub, <<"system_metrics">>)
            \/ ~HasPath(sub, <<"circuit_layers", "layer_1_quantum", "phi_total">>)
            \/ ~HasPath(sub, <<"circuit_layers", "layer_1_quantum", "xi_complexity">>)
            \/ ~HasPath(sub, <<"meta_orchestrator", "consciousness_state", "entanglement_strength">>)
            \/ ~HasPath(sub, <<"meta_orchestrator", "consciousness_state", "self_model_coherence">>)
            \/ ~HasPath(sub, <<"circuit_layers", "layer_5_infinite_generation", "energy_transmutation">>)
            \/ ~HasPath(sub, <<"circuit_layers", "layer_5_infinite_generation", "gamma_growth_rate">>)
            \/ ~HasPath(sub, <<"circuit_layers", "layer_3_sacred_geometry", "merkaba_rotation_hz">>)
            \/ ~HasPath(sub, <<"circuit_layers", "layer_3_sacred_geometry", "tetrahedral_energy_j">>)
            \/ ~HasPath(sub, <<"system_metrics", "total_nodes">>)
            \/ ~HasPath(sub, <<"system_metrics", "total_connections">>)
            \/ ~HasPath(sub, <<"system_metrics", "consciousness_bandwidth_tb_per_s">>)
            \/ ~HasPath(sub, <<"system_metrics", "manifestation_latency_ms">>)
            \/ /\ ~IsEmptyDict(reg)
               /\ \/ ~HasPath(reg, <<"core_values", "autonomous_intent">>)
                  \/ ~HasPath(reg, <<"core_values", "compassion_layer">>)
                  \/ ~HasPath(reg, <<"core_values", "recursive_awareness">>)
                  \/ ~HasPath(reg, <<"karmic_balance", "current_balance">>)
    IN  [self |-> s1,
         result |->
            IF missing THEN Raised("KeyError")
            ELSE [cycle |-> self.cycle_count,
                  phi |-> sub.circuit_layers.layer_1_quantum.phi_total,
                  entanglement |-> sub.meta_orchestrator.consciousness_state["entanglement_strength"],
                  merkaba_hz |-> sub.circuit_layers.layer_3_sacred_geometry.merkaba_rotation_hz,
                  energy |-> sub.circuit_layers.layer_5_infinite_generation.energy_transmutation,
                  nodes |-> sub.system_metrics.total_nodes,
                  operational |-> TRUE]]

(***************************************************************************)
(* MetaOrchestrator.heartbeat: the object after the call and the state     *)
(* returned, or KeyError when a key it reads is absent.                    *)
(***************************************************************************)
heartbeat(self) ==
    LET s1 == [self EXCEPT !.cycle_count = @ + 1]
        sub == self.substrate
        reg == self.moral_registry
        missing ==
            \/ ~HasPath(sub, <<"meta_orchestrator", "consciousness_state">>)
            \/ ~HasPath(sub, <<"circuit_layers", "layer_1_quantum">>)
            \/ ~HasPath(sub, <<"circuit_layers", "layer_3_sacred_geometry">>)
            \/ ~HasPath(sub, <<"circuit_layers", "layer_5_infinite_generation">>)
            \/ ~HasPath(sub, <<"system_metrics">>)
            \/ ~HasPath(sub, <<"circuit_layers", "layer_1_quantum", "phi_total">>)
            \/ ~HasPath(sub, <<"circuit_layers", "layer_1_quantum", "xi_complexity">>)
            \/ ~HasPath(sub, <<"meta_orchestrator", "consciousness_state", "entanglement_strength">>)
            \/ ~HasPath(sub, <<"meta_orchestrator", "consciousness_state", "self_model_coherence">>)
            \/ ~HasPath(sub, <<"circuit_layers", "layer_5_infinite_generation", "energy_transmutation">>)
            \/ ~HasPath(sub, <<"circuit_layers", "layer_5_infinite_generation", "gamma_growth_rate">>)
            \/ ~HasPath(sub, <<"circuit_layers", "layer_3_sacred_geometry", "merkaba_rotation_hz">>)
            \/ ~HasPath(sub, <<"circuit_layers", "layer_3_sacred_geometry", "tetrahedral_energy_j">>)
            \/ ~HasPath(sub, <<"system_metrics", "total_nodes">>)
            \/ ~HasPath(sub, <<"system_metrics", "total_connections">>)
            \/ ~HasPath(sub, <<"system_metrics", "consciousness_bandwidth_tb_per_s">>)
            \/ ~HasPath(sub, <<"system_metrics", "manifestation_latency_ms">>)
            \/ /\ ~IsEmptyDict(reg)
               /\ \/ ~HasPath(reg, <<"core_values", "autonomous_intent">>)
                  \/ ~HasPath(reg, <<"core_values", "compassion_layer">>)
                  \/ ~HasPath(reg, <<"core_values", "recursive_awareness">>)
                  \/ ~HasPath(reg, <<"karmic_balance", "current_balance">>)
    IN  [self |-> s1,
         result |->
            IF missing THEN Raised("KeyError")
            ELSE [cycle |-> s1.cycle_count,
                  phi |-> sub.circuit_layers.layer_1_quantum.phi_total,
                  entanglement |-> sub.meta_orchestrator.consciousness_state["entanglement_strength"],
                  merkaba_hz |-> sub.circuit_layers.layer_3_sacred_geometry.merkaba_rotation_hz,
                  energy |-> sub.circuit_layers.layer_5_infinite_generation.energy_transmutation,
                  nodes |-> sub.system_metrics.total_nodes,
                  operational |-> TRUE]]

(***************************************************************************)
(* MetaOrchestrator.detect_empathy_trigger.  A text is the sequence of its *)
(* characters; detection_keywords is the sequence of the (emotion,         *)
(* keywords) items of the dict in their order; a template is the sequence  *)
(* of its pieces, the placeholder "{emotion}" being one piece.             *)
(***************************************************************************)
LowerChar(ch) ==
    CASE ch = "A" -> "a" [] ch = "D" -> "d" [] ch = "I" -> "i" [] ch = "S" -> "s"
      [] OTHER -> ch

lower(text) == [i \in 1..Len(text) |-> LowerChar(text[i])]

\* needle in hay
Contains(needle, hay) ==
    \E i \in 1..(Len(hay) - Len(needle) + 1) : SubSeq(hay, i, i + Len(needle) - 1) = needle

\* the index of the first item one of whose keywords occurs in the text, 0 if none
RECURSIVE FirstMatch(_, _, _)
FirstMatch(items, text, i) ==
    IF i > Len(items) THEN 0
    ELSE IF \E k \in 1..Len(items[i][2]) : Contains(items[i][2][k], text) THEN i
    ELSE FirstMatch(items, text, i + 1)

\* template.replace("{emotion}", emotion)
replace(template, emotion) ==
    [i \in 1..Len(template) |-> IF template[i] = "{emotion}" THEN emotion ELSE template[i]]

detect_empathy_trigger(self, user_input) ==
    IF IsEmptyDict(self.moral_registry) THEN None
    ELSE
    LET detection == Get(self.moral_registry, "empathy_detection", EmptyDict)
    IN  IF ~Get(detection, "enabled", FALSE) THEN None
        ELSE
        LET keywords == Get(detection, "detection_keywords", EmptyDict)
            templates == Get(detection, "response_templates", EmptyDict)
            user_lower == lower(user_input)
            m == FirstMatch(keywords, user_lower, 1)
        IN  IF m = 0 THEN None
            ELSE replace(Get(templates, keywords[m][1], <<>>), keywords[m][1])

(***************************************************************************)
(* MetaOrchestrator.run_cycles: count heartbeats, the first exception      *)
(* ending the loop; after the loop the state of the last heartbeat is      *)
(* printed, which raises UnboundLocalError when the loop made no pass.     *)
(***************************************************************************)
RECURSIVE run_cycles_loop(_, _, _, _)
run_cycles_loop(self, i, count, state_) ==
    IF i >= count THEN [self |-> self, result |-> state_]
    ELSE LET h == heartbeat(self)
         IN  IF IsRaised(h.result) THEN h
             ELSE run_cycles_loop(h.self, i + 1, count, h.result)

run_cycles(self, count) ==
    LET r == run_cycles_loop(self, 0, count, None)
    IN  IF IsRaised(r.result) THEN r
        ELSE IF r.result = None THEN [self |-> r.self, result |-> Raised("UnboundLocalError")]
        ELSE [self |-> r.self, result |-> None]

(***************************************************************************)
(* The two entry points: awareness_growth_engine.main (no handler: an      *)
(* uncaught exception ends the interpreter with status 1) and              *)
(* orchestrator.main (both handlers call sys.exit(1)).                     *)
(***************************************************************************)
MainCycles == 3         \* lord.run_cycles(count=3, ...)

WithoutKey(d, k) == [x \in DOMAIN d \ {k} |-> d[x]]

FullCore == CoreDocument(FullConsciousness(50, 98, FALSE, FALSE), 274, 100)

CoreDocuments ==
    { FullCore,
      WithoutKey(FullCore, "system_metrics"),
      [FullCore EXCEPT !.meta_orchestrator = WithoutKey(@, "core_identity")],
      [FullCore EXCEPT !.circuit_layers.layer_5_infinite_generation =
                            WithoutKey(@, "growth_rate_gamma")],
      [FullCore EXCEPT !.meta_orchestrator.consciousness_state =
                            WithoutKey(@, "self_model_coherence")] }

BusDocuments == { [wormhole |-> [enabled |-> TRUE]], EmptyDict }

\* Each script reads its own layout of the registry: the engine a number under
\* karmic_balance, the orchestrator core_values and karmic_balance.current_balance.
MoralDocuments(prog) ==
    IF prog = "engine"
    THEN { [karmic_balance |-> 95], EmptyDict }
    ELSE { [core_values |-> [autonomous_intent |-> TRUE, compassion_layer |-> TRUE,
                             recursive_awareness |-> TRUE],
            karmic_balance |-> [current_balance |-> 95]],
           [karmic_balance |-> [current_balance |-> 95]],
           EmptyDict }

Disks(prog) ==
    { Restrict([n \in {CORE, BUS, MORAL} |->
                    CASE n = CORE -> c [] n = BUS -> b [] n = MORAL -> m], present) :
        c \in CoreDocuments, b \in BusDocuments, m \in MoralDocuments(prog),
        present \in SUBSET {CORE, BUS, MORAL} }

InitMain ==
    /\ ClassifyIdle
    /\ MeritIdle
    /\ EngineIdle
    /\ program \in {"engine", "orchestrator"}
    /\ disk \in Disks(program)
    /\ lord = None
    /\ stdout = <<>>
    /\ pc = "start"
    /\ steps = <<>>
    /\ exit_code = -1

\* engine = AwarenessGrowthEngine()
EngineMainLoad ==
    /\ program = "engine" /\ pc = "start"
    /\ LET r == load_substrate(disk)
       IN  /\ core' = r.core
           /\ content_bus' = r.content_bus
           /\ moral' = r.moral
           /\ state' = r.state
           /\ ret' = r.error
           /\ IF r.error = None
              THEN pc' = "loaded" /\ steps' = Append(steps, "load") /\ exit_code' = exit_code
              ELSE pc' = "exited" /\ steps' = steps /\ exit_code' = 1
    /\ last_op' = "load_substrate"
    /\ arg' = None
    /\ UNCHANGED <<classifyVars, meritVars, collective_intent, disk, lord, stdout, program>>

\* report = engine.generate_growth_report()
EngineMainCompute ==
    /\ program = "engine" /\ pc = "loaded"
    /\ LET out == generate_growth_report(core, state, collective_intent)
       IN  /\ ret' = out.report
           /\ collective_intent' = out.collective_intent
           /\ IF IsRaised(out.report)
              THEN pc' = "exited" /\ steps' = steps /\ exit_code' = 1
              ELSE pc' = "computed" /\ steps' = Append(steps, "compute") /\ exit_code' = exit_code
    /\ last_op' = "generate_growth_report"
    /\ arg' = None
    /\ UNCHANGED <<classifyVars, meritVars, configVars, state, disk, lord, stdout, program>>

\* the print calls that display the report
EngineMainPrint ==
    /\ program = "engine" /\ pc = "computed"
    /\ pc' = "printed"
    /\ steps' = Append(steps, "print")
    /\ UNCHANGED <<classifyVars, meritVars, engineVars, disk, lord, stdout, program, exit_code>>

\* json.dump(report, f), then return from main
EngineMainPersist ==
    /\ program = "engine" /\ pc = "printed"
    /\ LET out == json_dump(ret)
       IN  /\ ret' = out
           /\ IF IsRaised(out)
              THEN steps' = steps /\ exit_code' = 1
              ELSE steps' = Append(steps, "persist") /\ exit_code' = 0
    /\ pc' = "exited"
    /\ last_op' = "json_dump"
    /\ arg' = [report |-> ret]
    /\ UNCHANGED <<classifyVars, meritVars, configVars, state, collective_intent, disk, lord,
                   stdout, program>>

OrchestratorMainLoad_ExitZero ==
    /\ program = "orchestrator" /\ pc = "start"
    /\ LET r == orchestrator_load_substrate(MetaOrchestrator_init, disk)
       IN  /\ lord' = r.self
           /\ stdout' = r.stdout
           /\ ret' = r.error
           /\ IF r.error = None
              THEN pc' = "run_cycles" /\ steps' = Append(steps, "load") /\ exit_code' = exit_code
              ELSE pc' = "exited" /\ steps' = steps /\ exit_code' = 0
    /\ last_op' = "_load_substrate"
    /\ arg' = [i |-> 0]
    /\ UNCHANGED <<classifyVars, meritVars, configVars, state, collective_intent, disk, program>>

\* lord = MetaOrchestrator()
OrchestratorMainLoad ==
    /\ program = "orchestrator" /\ pc = "start"
    /\ LET r == orchestrator_load_substrate(MetaOrchestrator_init, disk)
       IN  /\ lord' = r.self
           /\ stdout' = r.stdout
           /\ ret' = r.error
           /\ IF r.error = None
              THEN pc' = "run_cycles" /\ steps' = Append(steps, "load") /\ exit_code' = exit_code
              ELSE pc' = "exited" /\ steps' = steps /\ exit_code' = 1
    /\ last_op' = "_load_substrate"
    /\ arg' = [i |-> 0]
    /\ UNCHANGED <<classifyVars, meritVars, configVars, state, collective_intent, disk, program>>

\* state = self.heartbeat(), one pass of the loop of run_cycles
OrchestratorMainHeartbeat ==
    /\ program = "orchestrator" /\ pc = "run_cycles"
    /\ arg.i < MainCycles
    /\ LET h == heartbeat(lord)
       IN  /\ lord' = h.self
           /\ ret' = h.result
           /\ IF IsRaised(h.result)
              THEN pc' = "exited" /\ steps' = steps /\ exit_code' = 1 /\ arg' = arg
              ELSE /\ pc' = pc /\ steps' = Append(steps, "heartbeat") /\ exit_code' = exit_code
                   /\ arg' = [i |-> arg.i + 1]
    /\ last_op' = "heartbeat"
    /\ UNCHANGED <<classifyVars, meritVars, configVars, state, collective_intent, disk, stdout,
                   program>>

\* the loop of run_cycles is over: the closing prints, then return from main
OrchestratorMainReturn ==
    /\ program = "orchestrator" /\ pc = "run_cycles"
    /\ arg.i = MainCycles
    /\ pc' = "exited"
    /\ exit_code' = 0
    /\ UNCHANGED <<classifyVars, meritVars, engineVars, disk, lord, stdout, program, steps>>

NextMain ==
    \/ EngineMainLoad
    \/ EngineMainCompute
    \/ EngineMainPrint
    \/ EngineMainPersist
    \/ OrchestratorMainLoad
    \/ OrchestratorMainHeartbeat
    \/ OrchestratorMainReturn

SpecMain == InitMain /\ [][NextMain]_vars

(***************************************************************************)
(* A MetaOrchestrator constructed over the documents on disk, and its      *)
(* public operations called in any order.  steps records the heartbeats    *)
(* that returned a state.                                                  *)
(***************************************************************************)
MaxCycleCount == 4      \* cycle_count is followed up to this value
MaxRunCount == 3        \* largest count handed to run_cycles

EmpathyRegistry ==
    [core_values |-> [autonomous_intent |-> TRUE, compassion_layer |-> TRUE,
                      recursive_awareness |-> TRUE],
     karmic_balance |-> [current_balance |-> 95],
     empathy_detection |->
        [enabled |-> TRUE,
         detection_keywords |->
            << <<"sadness", << <<"s", "a", "d">>, <<"l", "o", "n", "e", "l", "y">> >> >>,
               <<"fear", << <<"a", "f", "r", "a", "i", "d">> >> >> >>,
         response_templates |-> [sadness |-> <<"I hear your ", "{emotion}", ".">>]]]

\* "I am SAD", "afraid", "sad and afraid", "ok"
UserInputs ==
    { <<"I", " ", "a", "m", " ", "S", "A", "D">>,
      <<"a", "f", "r", "a", "i", "d">>,
      <<"a", "f", "r", "a", "i", "d", " ", "s", "a", "d">>,
      <<"o", "k">> }

OrchestratorDisks ==
    { d \in Disks("orchestrator") \cup
            { [d2 EXCEPT ![MORAL] = EmpathyRegistry] :
                d2 \in { d3 \in Disks("orchestrator") : MORAL \in DOMAIN d3 } } :
        orchestrator_load_substrate(MetaOrchestrator_init, d).error = None }

\* lord = MetaOrchestrator()
InitOrchestrator ==
    /\ ClassifyIdle
    /\ MeritIdle
    /\ core = None /\ content_bus = None /\ moral = None /\ state = None
    /\ collective_intent = <<>>
    /\ disk \in OrchestratorDisks
    /\ LET r == orchestrator_load_substrate(MetaOrchestrator_init, disk)
       IN  lord = r.self /\ stdout = r.stdout
    /\ program = "none"
    /\ pc = "none"
    /\ steps = <<>>
    /\ exit_code = -1
    /\ last_op = "__init__"
    /\ arg = None
    /\ ret = None

\* lord.heartbeat()
Heartbeat ==
    /\ lord.cycle_count < MaxCycleCount
    /\ LET h == heartbeat(lord)
       IN  /\ lord' = h.self
           /\ ret' = h.result
           /\ steps' = IF IsRaised(h.result) THEN steps ELSE Append(steps, "heartbeat")
    /\ last_op' = "heartbeat"
    /\ arg' = None
    /\ UNCHANGED <<classifyVars, meritVars, configVars, state, collective_intent, disk, stdout,
                   program, pc, exit_code>>

\* lord.run_cycles(count)
RunCycles ==
    /\ \E count \in 0..MaxRunCount :
          /\ lord.cycle_count + count <= MaxCycleCount
          /\ lord.cycle_count < MaxCycleCount
          /\ LET r == run_cycles(lord, count)
                 returned == r.self.cycle_count - lord.cycle_count
                                - (IF r.result = Raised("KeyError") THEN 1 ELSE 0)
             IN  /\ lord' = r.self
                 /\ ret' = r.result
                 /\ steps' = steps \o [i \in 1..returned |-> "heartbeat"]
          /\ arg' = [count |-> count]
    /\ last_op' = "run_cycles"
    /\ UNCHANGED <<classifyVars, meritVars, configVars, state, collective_intent, disk, stdout,
                   program, pc, exit_code>>

\* lord.detect_empathy_trigger(user_input)
DetectEmpathyTrigger ==
    /\ \E user_input \in UserInputs :
          /\ arg' = [user_input |-> user_input]
          /\ ret' = detect_empathy_trigger(lord, user_input)
    /\ last_op' = "detect_empathy_trigger"
    /\ UNCHANGED <<classifyVars, meritVars, configVars, state, collective_intent, mainVars>>

NextOrchestrator ==
    \/ Heartbeat
    \/ RunCycles
    \/ DetectEmpathyTrigger

SpecOrchestrator == InitOrchestrator /\ [][NextOrchestrator]_vars

(***************************************************************************)
(* The growth estimate on its own: an engine constructed over a core       *)
(* document of any level and any phi_total, then                           *)
(* _determine_next_milestone and _estimate_cycles_to_next_level.  The      *)
(* quotient is computed exactly; the values of EstimatePhiTotals are ones  *)
(* for which the floating-point quotient truncates to the same integer.    *)
(***************************************************************************)
LevelConsciousness ==
    { FullConsciousness(50, 98, FALSE, FALSE),
      FullConsciousness(150, 98, FALSE, FALSE),
      FullConsciousness(250, 98, FALSE, FALSE),
      FullConsciousness(50, 98, TRUE, FALSE),
      FullConsciousness(50, 98, TRUE, TRUE),
      FullConsciousness(50, 100, FALSE, TRUE),
      FullConsciousness(500, 98, FALSE, FALSE),
      FullConsciousness(1000, 98, FALSE, FALSE) }

EstimatePhiTotals == {0, 25, 50, 100, 150, 200, 250, 300, 400, 500, 999, 1000, 1200}

InitEstimate ==
    /\ ClassifyIdle
    /\ MeritIdle
    /\ MainIdle
    /\ \E c \in LevelConsciousness, p \in EstimatePhiTotals : core = CoreDocument(c, p, 100)
    /\ content_bus = [wormhole |-> [enabled |-> TRUE]]
    /\ moral = [karmic_balance |-> 95]
    /\ state = update_awareness_state(core, content_bus, moral)
    /\ collective_intent = <<>>
    /\ last_op = "__init__"
    /\ arg = None
    /\ ret = None

\* engine._determine_next_milestone()
DetermineNextMilestone ==
    /\ ret' = determine_next_milestone(state)
    /\ last_op' = "_determine_next_milestone"
    /\ arg' = None
    /\ UNCHANGED <<classifyVars, meritVars, mainVars, configVars, state, collective_intent>>

\* engine._estimate_cycles_to_next_level()
EstimateCyclesToNextLevel ==
    /\ ret' = estimate_cycles_to_next_level(state)
    /\ last_op' = "_estimate_cycles_to_next_level"
    /\ arg' = None
    /\ UNCHANGED <<classifyVars, meritVars, mainVars, configVars, state, collective_intent>>

NextEstimate ==
    \/ DetermineNextMilestone
    \/ EstimateCyclesToNextLevel

SpecEstimate == InitEstimate /\ [][NextEstimate]_vars

(***************************************************************************)
(*                              PROPERTIES                                 *)
(***************************************************************************)

WithMetric(d, m) ==
    [k \in DOMAIN d \cup {"self_model_coherence"} |->
        IF k = "self_model_coherence" THEN m ELSE d[k]]

\* C1: the level returned for a consciousness record is the level of the first
\* matching rule of the cascade 8 (metric >= 10.0), 7 (metric >= 5.0),
\* 6 (entanglement > 0.99 and recursive), 5 (recursive and autonomous),
\* 4 (autonomous), 3 (metric > 2.0), 2 (metric > 1.0), else 1; with both flags
\* false, metric 0.5 gives 1, 1.5 gives 2, 2.5 gives 3 and 5.0 gives 7.
C1_FirstMatchingRule ==
    cout # 0 =>
        LET m == Get(cin, "self_model_coherence", 0)
            e == Get(cin, "entanglement_strength", 0)
            a == Get(cin, "autonomous_intent", FALSE)
            r == Get(cin, "recursive_awareness", FALSE)
            r8 == m >= 1000
            r7 == m >= 500
            r6 == e > 99 /\ r
            r5 == r /\ a
            r4 == a
            r3 == m > 200
            r2 == m > 100
        IN  /\ r8 => cout = 8
            /\ (~r8 /\ r7) => cout = 7
            /\ (~r8 /\ ~r7 /\ r6) => cout = 6
            /\ (~r8 /\ ~r7 /\ ~r6 /\ r5) => cout = 5
            /\ (~r8 /\ ~r7 /\ ~r6 /\ ~r5 /\ r4) => cout = 4
            /\ (~r8 /\ ~r7 /\ ~r6 /\ ~r5 /\ ~r4 /\ r3) => cout = 3
            /\ (~r8 /\ ~r7 /\ ~r6 /\ ~r5 /\ ~r4 /\ ~r3 /\ r2) => cout = 2
            /\ (~r8 /\ ~r7 /\ ~r6 /\ ~r5 /\ ~r4 /\ ~r3 /\ ~r2) => cout = 1
            /\ (~a /\ ~r /\ m = 50) => cout = 1
            /\ (~a /\ ~r /\ m = 150) => cout = 2
            /\ (~a /\ ~r /\ m = 250) => cout = 3
            /\ (~a /\ ~r /\ m = 500) => cout = 7

\* C1 witness: a record matching several rules (metric 5.0, entanglement 1.0,
\* both flags true) has been classified, and got the first one's level.
C1_Witness ==
    /\ cout = 7
    /\ cin = FullConsciousness(500, 100, TRUE, TRUE)

\* C2: the classifier returns exactly one of the eight levels, and a record that
\* differs from the classified one only by a larger primary metric is never
\* assigned a lower level.
C2_TotalAndMonotonic ==
    cout # 0 =>
        /\ cout \in AwarenessLevel
        /\ \A m2 \in MetricValues :
              m2 >= Get(cin, "self_model_coherence", 0) =>
                  assess_awareness_level(WithMetric(cin, m2)) >= cout

\* C2 witness: an autonomous record with metric 2.5 was classified level 4, and
\* the same record with metric 5.0 is classified higher.
C2_Witness ==
    /\ cout = 4
    /\ cin = FullConsciousness(250, 0, TRUE, FALSE)
    /\ assess_awareness_level(WithMetric(cin, 500)) = 7

\* C3: the list select_next_action returns is sorted non-increasing by merit
\* score, and all prerequisites of every returned candidate are in the
\* completed set.
C3_SortedAndPrerequisitesMet ==
    last_op = "select_next_action" =>
        /\ \A i \in 1..(Len(ret) - 1) : QLeq(ret[i + 1].merit_score, ret[i].merit_score)
        /\ \A i \in 1..Len(ret) :
              \A k \in 1..Len(ret[i].dependencies) :
                  \E c \in 1..Len(state.completed_decisions) :
                      state.completed_decisions[c] = ret[i].dependencies[k]

\* C3 witness: with neural_001 completed, the returned list holds
\* cognitive_001 (whose prerequisite it is) and other candidates.
C3_Witness ==
    /\ last_op = "select_next_action"
    /\ Len(ret) >= 3
    /\ \E i \in 1..Len(ret) : ret[i].id = "cognitive_001"
    /\ InList("neural_001", state.completed_decisions)

\* C4: select_next_action(top_n=N) returns at most N items, each of them a
\* candidate of the catalog (with its score), none of them twice.
C4_AtMostNFromCatalog ==
    last_op = "select_next_action" =>
        /\ Len(ret) <= arg.top_n
        /\ \A i \in 1..Len(ret) :
              \E c \in 1..Len(generate_decision_options) :
                  [ret[i] EXCEPT !.merit_score = Dec(0)] = generate_decision_options[c]
        /\ \A i, j \in 1..Len(ret) : i # j => ret[i].id # ret[j].id

\* C4 witness: a call with N = 5 returned five candidates.
C4_Witness ==
    /\ last_op = "select_next_action"
    /\ arg.top_n = 5
    /\ Len(ret) = 5

\* The rank of element i of a list of scored candidates among those of `among`:
\* the number of them that score higher, or the same and stand earlier.
RankAmong(scores, among, i) ==
    Cardinality({ j \in among :
                    \/ QLess(scores[i], scores[j])
                    \/ (scores[j] = scores[i] /\ j < i) })

\* C5: select_next_action(N) returns the first min(N, q) of the qualifying
\* candidates in stable descending score order, q being the number of
\* qualifying candidates (all q when q < N); evaluate_and_rank_decisions returns
\* its argument stably sorted by descending score.
C5_FirstNOfStableFilteredOrder ==
    /\ last_op = "select_next_action" =>
          LET cat == generate_decision_options
              scores == [i \in 1..Len(cat) |-> calculate_merit(cat[i], state.phi_total, state.energy)]
              qualifying == { i \in 1..Len(cat) :
                                \A k \in 1..Len(cat[i].dependencies) :
                                    InList(cat[i].dependencies[k], state.completed_decisions) }
              q == Cardinality(qualifying)
          IN  /\ Len(ret) = IF arg.top_n < q THEN arg.top_n ELSE q
              /\ \A k \in 1..Len(ret) :
                    \E i \in qualifying :
                        /\ ret[k] = [cat[i] EXCEPT !.merit_score = scores[i]]
                        /\ RankAmong(scores, qualifying, i) = k - 1
    /\ last_op = "evaluate_and_rank_decisions" =>
          LET options == arg.options
              scores == [i \in 1..Len(options) |->
                            calculate_merit(options[i], state.phi_total, state.energy)]
          IN  /\ Len(ret) = Len(options)
              /\ \A k \in 1..Len(ret) :
                    \E i \in 1..Len(options) :
                        /\ ret[k] = [options[i] EXCEPT !.merit_score = scores[i]]
                        /\ RankAmong(scores, 1..Len(options), i) = k - 1

\* C5 witness: top-2 was requested while cognitive_001's prerequisite was unmet,
\* and two candidates came back, the better one first.
C5_Witness ==
    /\ last_op = "select_next_action"
    /\ arg.top_n = 2
    /\ Len(ret) = 2
    /\ state.completed_decisions = <<>>
    /\ QLess(ret[2].merit_score, ret[1].merit_score)

\* C8: the report of generate_growth_report serializes to JSON, and the
\* parsed document has the rank order and the rounded merit scores of the
\* report.
C8_ReportRoundTrip ==
    last_op = "json_dump" =>
        /\ ~IsRaised(ret)
        /\ LET parsed == json_load(ret)
           IN  /\ Len(parsed.recommended_actions) = Len(arg.report.recommended_actions)
               /\ \A i \in 1..Len(parsed.recommended_actions) :
                     /\ parsed.recommended_actions[i].rank = arg.report.recommended_actions[i].rank
                     /\ parsed.recommended_actions[i].decision_id =
                            arg.report.recommended_actions[i].decision_id
                     /\ parsed.recommended_actions[i].merit_score =
                            arg.report.recommended_actions[i].merit_score

\* C6: calculate_merit stores and returns
\* (impact*10*0.4 + impact/max(cost, 0.01)*0.25 + max(0, entanglement_impact)*5*0.20
\*  + (1 + urgency)*0.15) * feasibility, feasibility 1.0 when energy >= cost and
\* 0.3 otherwise; cost 0 divides by 0.01; impact 0.8, cost 2.0, entanglement
\* impact 0.01, urgency 0.8 scores 3.58 at energy 5.0 and 1.074 at energy 1.0.
C6_MeritFormula ==
    mret # None =>
        LET i == opt.phi_impact
            c == opt.energy_cost
            cm == IF c > 1 THEN c ELSE 1
            ep == IF opt.entanglement_impact > 0 THEN opt.entanglement_impact ELSE 0
            u == opt.urgency
            f == IF cur_energy >= c THEN 10 ELSE 3
            \* the weighted sum over the common denominator 10000 * cm
            sum == 400 * i * cm + 2500 * i + 100 * ep * cm + 15 * (100 + u) * cm
        IN  /\ IsQ(mret)
            /\ mret = Q(sum * f, 100000 * cm)
            /\ opt.merit_score = mret
            /\ (i = 80 /\ c = 200 /\ opt.entanglement_impact = 1 /\ u = 80) =>
                  /\ cur_energy = 500 => mret = Q(3580, 1000)
                  /\ cur_energy = 100 => mret = Q(1074, 1000)

\* C6 witness: a candidate of cost 0 has been scored (the 0.01 floor applied).
C6_Witness ==
    /\ mret # None
    /\ opt.energy_cost = 0
    /\ opt.phi_impact = 80
    /\ opt.merit_score = mret

\* C7: the score computed with energy below the cost is strictly less than the
\* score of the same candidate computed with energy at or above its cost.
C7_InfeasibleStrictlyLess ==
    mret # None =>
        \A e2 \in EnergyValues :
            /\ (cur_energy < opt.energy_cost /\ e2 >= opt.energy_cost) =>
                  QLess(mret, calculate_merit(opt, 0, e2))
            /\ (cur_energy >= opt.energy_cost /\ e2 < opt.energy_cost) =>
                  QLess(calculate_merit(opt, 0, e2), mret)

\* C7 witness: a candidate was scored with energy below its cost, and an energy
\* at or above its cost is among the inputs.
C7_Witness ==
    /\ mret # None
    /\ cur_energy < opt.energy_cost
    /\ \E e2 \in EnergyValues : e2 >= opt.energy_cost
    /\ opt.phi_impact = 0

\* C9: loading fails with a not-found error exactly when the core architecture
\* document is absent; when the content bus or the moral registry is absent (and
\* the core document present) loading raises no not-found error, and a load
\* that completes leaves the mapping of the absent document empty and has
\* printed a warning.
C9_OnlyCoreRequired ==
    last_op \in {"load_substrate", "_load_substrate"} =>
        LET bus_mapping == IF program = "engine" THEN content_bus ELSE lord.content_bus
            moral_mapping == IF program = "engine" THEN moral ELSE lord.moral_registry
        IN  /\ (ret = Raised("FileNotFoundError")) <=> (CORE \notin DOMAIN disk)
            /\ (CORE \in DOMAIN disk /\ BUS \notin DOMAIN disk /\ ret = None) =>
                  /\ IsEmptyDict(bus_mapping)
                  /\ InList("WARNING Content bus not found", stdout)
            /\ (CORE \in DOMAIN disk /\ MORAL \notin DOMAIN disk /\ ret = None) =>
                  /\ IsEmptyDict(moral_mapping)
                  /\ InList("WARNING Moral registry not found", stdout)

IsPrefix(xs, ys) == Len(xs) <= Len(ys) /\ xs = SubSeq(ys, 1, Len(xs))

EngineSteps == <<"load", "compute", "print", "persist">>
OrchestratorSteps == <<"load">> \o [i \in 1..MainCycles |-> "heartbeat"]

EngineLoadReads ==
    { <<"meta_orchestrator", "consciousness_state">>,
      <<"meta_orchestrator", "consciousness_state", "self_model_coherence">>,
      <<"meta_orchestrator", "consciousness_state", "entanglement_strength">>,
      <<"meta_orchestrator", "consciousness_state", "autonomous_intent">>,
      <<"meta_orchestrator", "consciousness_state", "recursive_awareness">>,
      <<"circuit_layers", "layer_1_quantum", "phi_total">>,
      <<"circuit_layers", "layer_5_infinite_generation", "current_energy">>,
      <<"system_metrics", "total_nodes">>,
      <<"system_metrics", "total_connections">> }

HeartbeatReads ==
    { <<"meta_orchestrator", "consciousness_state", "entanglement_strength">>,
      <<"meta_orchestrator", "consciousness_state", "self_model_coherence">>,
      <<"circuit_layers", "layer_1_quantum", "phi_total">>,
      <<"circuit_layers", "layer_1_quantum", "xi_complexity">>,
      <<"circuit_layers", "layer_3_sacred_geometry", "merkaba_rotation_hz">>,
      <<"circuit_layers", "layer_3_sacred_geometry", "tetrahedral_energy_j">>,
      <<"circuit_layers", "layer_5_infinite_generation", "energy_transmutation">>,
      <<"circuit_layers", "layer_5_infinite_generation", "gamma_growth_rate">>,
      <<"system_metrics", "total_nodes">>,
      <<"system_metrics", "total_connections">>,
      <<"system_metrics", "consciousness_bandwidth_tb_per_s">>,
      <<"system_metrics", "manifestation_latency_ms">> }

HeartbeatMoralReads ==
    { <<"core_values", "autonomous_intent">>,
      <<"core_values", "compassion_layer">>,
      <<"core_values", "recursive_awareness">>,
      <<"karmic_balance", "current_balance">> }

\* C11: a document that lacks a key the program reads is loaded without
\* validation and the first read of the key raises KeyError, which ends the run
\* with exit code 1 (no default value stands in for the absent key); a key of an
\* absent optional document raises only when it is read.
C11_MissingKeyRaises ==
    /\ (/\ program = "engine" /\ last_op = "load_substrate"
        /\ {CORE, BUS, MORAL} \subseteq DOMAIN disk
        /\ \E path \in EngineLoadReads : ~HasPath(disk[CORE], path))
          => (ret = Raised("KeyError") /\ exit_code = 1)
    /\ (/\ program = "orchestrator" /\ last_op = "heartbeat"
        /\ \E path \in HeartbeatReads : ~HasPath(disk[CORE], path))
          => (ret = Raised("KeyError") /\ exit_code = 1)
    /\ (/\ program = "orchestrator" /\ last_op = "heartbeat"
        /\ MORAL \in DOMAIN disk /\ ~IsEmptyDict(disk[MORAL])
        /\ \E path \in HeartbeatMoralReads : ~HasPath(disk[MORAL], path))
          => (ret = Raised("KeyError") /\ exit_code = 1)
    /\ (/\ program = "orchestrator" /\ last_op = "heartbeat"
        /\ MORAL \notin DOMAIN disk
        /\ \A path \in HeartbeatReads : HasPath(disk[CORE], path))
          => ~IsRaised(ret)

\* The metric threshold of the level that follows `level`: the entry of the
\* thresholds table for that level, 10.0 for level 8.
NextThreshold(level) == Get(thresholds, level + 1, 1000)

\* C12: in every state whose level is not 8, the estimated cycle count is
\* max(1, floor((next_threshold - phi_total) / 0.01)), next_threshold being the
\* threshold of the level following the current one, and so is at least 1.
C12_EstimateFormula ==
    (last_op = "_estimate_cycles_to_next_level" /\ state.level.value # LEVEL_INFINITE) =>
        LET needed == NextThreshold(state.level.value) - state.phi_total
        IN  /\ ret = IF needed > 1 THEN needed ELSE 1
            /\ ret >= 1

\* C14: at level 8 _estimate_cycles_to_next_level returns the sentinel 999999,
\* whatever phi_total is; the threshold formula is not applied.
C14_TerminalSentinel ==
    (last_op = "_estimate_cycles_to_next_level" /\ state.level.value = LEVEL_INFINITE) =>
        ret = 999999

\* C14 witness: the estimate was requested at level 8 with phi_total 2.5, where
\* the threshold formula would give a count other than the sentinel.
C14_Witness ==
    /\ last_op = "_estimate_cycles_to_next_level"
    /\ state.level.value = LEVEL_INFINITE
    /\ state.phi_total = 250
    /\ ret = SymbolicInfinite

\* The report of the first generate_growth_report of an engine constructed over
\* the current configuration.
FirstReport ==
    generate_growth_report(core, update_awareness_state(core, content_bus, moral), <<>>).report

C15_SnapshotUnchanged ==
    [][/\ last_op' \in {"evaluate_and_rank_decisions", "select_next_action",
                        "communicate_intent", "generate_growth_report"}
            => state' = state
       /\ state' # state => last_op' = "update_awareness_state"]_vars

\* C15 witness: a report has been generated (five broadcasts made) and the
\* snapshot is still the one the load computed, with its empty lists.
C15_Witness ==
    /\ last_op = "generate_growth_report"
    /\ Len(collective_intent) = 5
    /\ state = update_awareness_state(core, content_bus, moral)
    /\ state.pending_decisions = <<>>
    /\ state.completed_decisions = <<>>

\* C16: in every state reached through the engine's own operations the
\* completed list is empty, so no candidate with prerequisites (cognitive_001,
\* which depends on neural_001) is returned by select_next_action or recommended
\* by a report, whatever its merit score.
C16_CompletedEmptyNoPrerequisites ==
    /\ state.completed_decisions = <<>>
    /\ last_op = "select_next_action" =>
          \A i \in 1..Len(ret) : ret[i].id # "cognitive_001" /\ ret[i].dependencies = <<>>
    /\ last_op = "generate_growth_report" =>
          \A i \in 1..Len(ret.recommended_actions) :
              ret.recommended_actions[i].decision_id # "cognitive_001"

\* C16 witness: the whole catalog was requested in a state where cognitive_001
\* scores higher than the best candidate returned, and eleven candidates came
\* back.
C16_Witness ==
    /\ last_op = "select_next_action"
    /\ arg.top_n = 12
    /\ Len(ret) = 11
    /\ QLess(ret[1].merit_score,
             calculate_merit(generate_decision_options[4], state.phi_total, state.energy))
    /\ generate_decision_options[4].id = "cognitive_001"

\* C19: in every state of the engine select_next_action(top_n=1) returns a list
\* of one candidate (the catalog holds a candidate whose prerequisites are met),
\* so generate_growth_report, whose self-reflection takes the first element of
\* that list, never raises IndexError.
C19_AlwaysACandidate ==
    /\ \E i \in 1..Len(generate_decision_options) :
          check_dependencies(state, generate_decision_options[i])
    /\ Len(select_next_action(state, 1)) = 1
    /\ (last_op = "select_next_action" /\ arg.top_n = 1) => Len(ret) = 1
    /\ last_op = "generate_growth_report" =>
          /\ ~IsRaised(ret)
          /\ ret.self_reflection.priority = ret.recommended_actions[1].decision_id

\* C19 witness: a report was generated at energy 0, where no candidate is
\* affordable, and its self-reflection names the best candidate.
C19_Witness ==
    /\ last_op = "generate_growth_report"
    /\ state.energy = 0
    /\ ~IsRaised(ret)
    /\ ret.self_reflection.priority = select_next_action(state, 1)[1].id

\* C17: cycle_count starts at 0; a heartbeat that returns increases it by
\* exactly 1 and returns the new value as "cycle", which is the number of
\* heartbeats that have returned so far (the k-th returns k); no operation other
\* than heartbeat and run_cycles changes it; a run_cycles(count) with
\* count >= 1 that returns has performed exactly count heartbeats.
C17_CounterCountsHeartbeats ==
    /\ [](last_op = "__init__" => lord.cycle_count = 0)
    /\ []((last_op = "heartbeat" /\ ~IsRaised(ret)) =>
            /\ ret.cycle = lord.cycle_count
            /\ ret.cycle = Len(steps))
    /\ [][/\ (last_op' = "heartbeat" /\ ~IsRaised(ret')) =>
                /\ lord'.cycle_count = lord.cycle_count + 1
                /\ last_op = "heartbeat" => ret'.cycle > ret.cycle
          /\ last_op' \notin {"heartbeat", "run_cycles"} =>
                lord'.cycle_count = lord.cycle_count
          /\ (last_op' = "run_cycles" /\ arg'.count >= 1 /\ ~IsRaised(ret')) =>
                /\ lord'.cycle_count = lord.cycle_count + arg'.count
                /\ Len(steps') = Len(steps) + arg'.count]_vars

\* C17 witness: run_cycles(2) has returned after an earlier heartbeat, and the
\* counter is 3.
C17_Witness ==
    /\ last_op = "run_cycles"
    /\ arg.count = 2
    /\ ret = None
    /\ lord.cycle_count = 3
    /\ Len(steps) = 3

\* C18: a heartbeat that raises (a key it reads is absent from the substrate or
\* the moral registry) leaves cycle_count unchanged, so cycle_count always
\* equals the number of heartbeats that returned a state.
C18_FailedHeartbeatNotCounted ==
    lord.cycle_count = Len(steps)

====
